---- MODULE Spec2Model ----
(***************************************************************************)
(* CheeseHouse: game-result processing, voucher issuance and voucher       *)
(* redemption, modelled from the Go sources.                               *)
(*                                                                         *)
(* The relational store is modelled as two tables (clientes, vouchers)     *)
(* with their unique indices.  Every repository call of a handler is one   *)
(* atomic step; the local computation between two store calls belongs to   *)
(* the step of the store call that follows it (or precedes the return).    *)
(***************************************************************************)
EXTENDS Integers, Sequences, FiniteSets, TLC

(***************************************************************************)
(* float64 arithmetic on decimal inputs                                    *)
(*                                                                         *)
(* A time is submitted as a decimal with one fractional digit, n/10, and   *)
(* is parsed to the nearest float64.  That float64 is written exactly as   *)
(* the pair [dec |-> n, err |-> E], meaning the real number                *)
(*        (n * 2^56 + E) / (10 * 2^56).                                    *)
(* E is a small integer (|E| <= 5 * 2^9 for |n/10| < 64), so pairs are     *)
(* compared lexicographically and subtracted componentwise, exactly.       *)
(***************************************************************************)

Abs(x) == IF x < 0 THEN -x ELSE x

RECURSIVE Pow2(_)
Pow2(k) == IF k = 0 THEN 1 ELSE 2 * Pow2(k - 1)

\* 2^k mod 10, for k >= 0
Pow2Mod10(k) == IF k = 0 THEN 1
                ELSE CASE k % 4 = 0 -> 6
                       [] k % 4 = 1 -> 2
                       [] k % 4 = 2 -> 4
                       [] OTHER     -> 8

\* The binade of n/10: the j with 2^j <= n/10 < 2^(j+1), for 1 <= n < 640.
RECURSIVE BinadeFrom(_, _)
BinadeFrom(n, j) == IF n * 16 < 10 * Pow2(j + 5) THEN j ELSE BinadeFrom(n, j + 1)
Binade(n) == BinadeFrom(n, -4)

\* strconv.ParseFloat / JSON decoding of the decimal n/10: round to nearest.
\* The mantissa has 53 bits, so the unit in the last place is 2^(j-52);
\* r is the remainder of n * 2^(52-j) modulo 10 (never 5: no ties).
ParseFloat(n) ==
    IF n = 0 THEN [dec |-> 0, err |-> 0]
    ELSE LET a == Abs(n)
             j == Binade(a)
             r == (a * Pow2Mod10(52 - j)) % 10
             e == IF r < 5 THEN -r ELSE 10 - r
             s == IF n < 0 THEN -1 ELSE 1
         IN  [dec |-> n, err |-> s * e * Pow2(4 + j)]

\* The decimals (in tenths) the model parses, and their float64, computed once
Decimales == -10..320
Float64 == [n \in Decimales |-> ParseFloat(n)]

\* float64 comparison, subtraction and math.Abs on exact pairs.  The
\* subtraction of two parsed times is exact (no rounding) whenever its
\* result is below 4 in magnitude; above that the rounding cannot move the
\* result across any bound it is compared with here.
FLess(x, y) == x.dec < y.dec \/ (x.dec = y.dec /\ x.err < y.err)
FLessEq(x, y) == x.dec < y.dec \/ (x.dec = y.dec /\ x.err <= y.err)
FSub(x, y) == [dec |-> x.dec - y.dec, err |-> x.err - y.err]
FZero == [dec |-> 0, err |-> 0]
FAbs(x) == IF FLess(x, FZero) THEN [dec |-> -x.dec, err |-> -x.err] ELSE x

(***************************************************************************)
(* Configuration (config.Load, config.GetPhoneValidation)                  *)
(***************************************************************************)
MinTargetTime == 50          \* 5.0 s, in tenths
MaxTargetTime == 200         \* 20.0 s, in tenths
MaxObtenido == 300           \* the literal 30 of validarDatosJuego, in tenths
WinDiscount == 30
LoseDiscount == 10
DefaultTolerance == 1        \* 0.1 s, in tenths
VoucherValidityDays == 30
GamesRequireApproval == 3

CountryCode == <<"5", "4">>
MinLength == 10
MaxLength == 15
AllowIntl == TRUE
AreaCodeNumbers ==
    {11, 221, 261, 264, 266, 280, 290, 291, 292, 293, 294, 295, 296, 297,
     298, 299, 336, 341, 342, 343, 344, 345, 346, 347, 348, 349, 351, 352,
     353, 354, 356, 357, 358, 359, 370, 371, 372, 373, 374, 375, 376, 377,
     378, 379, 380, 381, 382, 383, 384, 385, 386, 387, 388, 389}

DigitChar == <<"0", "1", "2", "3", "4", "5", "6", "7", "8", "9">>
RECURSIVE Digits(_)
Digits(n) == IF n < 10 THEN <<DigitChar[n + 1]>>
             ELSE Digits(n \div 10) \o <<DigitChar[(n % 10) + 1]>>
AreaCodes == {Digits(n) : n \in AreaCodeNumbers}

(***************************************************************************)
(* Strings are sequences of one-character strings.                         *)
(***************************************************************************)
HasPrefix(s, p) == Len(s) >= Len(p) /\ SubSeq(s, 1, Len(p)) = p
TrimPrefix(s, p) == IF HasPrefix(s, p) THEN SubSeq(s, Len(p) + 1, Len(s)) ELSE s
RemoveAll(s, c) == SelectSeq(s, LAMBDA ch : ch # c)
CleanPhone(s) == RemoveAll(RemoveAll(RemoveAll(RemoveAll(s, " "), "-"), "("), ")")

\* WhatsAppService.NormalizarTelefono
NormalizarTelefono(telefono) ==
    LET cleanPhone == CleanPhone(telefono)
    IN  IF ~HasPrefix(cleanPhone, <<"+">>) /\ Len(cleanPhone) >= 10
        THEN <<"+", "5", "4">> \o cleanPhone
        ELSE cleanPhone

\* WhatsAppService.ValidarTelefonoArgentino: TRUE when it returns nil
ValidarTelefonoArgentino(telefono) ==
    LET cleanPhone == CleanPhone(telefono)
        withoutCountryCode == TrimPrefix(cleanPhone, CountryCode)
        isValidAreaCode == \E areaCode \in AreaCodes : HasPrefix(withoutCountryCode, areaCode)
    IN  IF Len(cleanPhone) < MinLength \/ Len(cleanPhone) > MaxLength THEN FALSE
        ELSE IF ~HasPrefix(cleanPhone, CountryCode)
             THEN IF ~AllowIntl THEN FALSE
                  ELSE HasPrefix(cleanPhone, <<"+">>)
             ELSE ~(~isValidAreaCode /\ Len(withoutCountryCode) < 10)

(***************************************************************************)
(* Bounds of the model and the inputs it draws                             *)
(***************************************************************************)
RandRange == 3        \* rand.Intn(1000) of generarCodigoVoucher, scaled down
MaxEnvios == 2        \* notification goroutines that may be waiting to run
MaxTicks == 2         \* advances of the clock
MaxDiferencia == 6    \* largest |achieved - target| (in tenths) of a stand-alone evaluation
MaxRetraso == 1       \* largest advance of the clock between two readings within one step

Nil == "nil"
Juegos == {1, 2}   \* game submissions that may be in flight together
Canjes == {1, 2}   \* redemption calls that may be in flight together

TelefonoA == <<"+", "5", "4", "9", "1", "1", "1", "2", "3", "4", "5", "6", "7", "8">>
TelefonoAFormateado == <<"+", "5", "4", " ", "9", " ", "1", "1", " ", "1", "2", "3", "4", "-", "5", "6", "7", "8">>
TelefonoCorto == <<"1", "2", "3", "4", "5">>
TelefonoSinMas == <<"5", "4", "9", "1", "1", "1", "2", "3", "4", "5", "6", "7", "8">>
\* Argentine numbers with area code 555, which is not one of AreaCodes,
\* written with and without the leading '+'
TelefonoArea555 == <<"+", "5", "4", "5", "5", "5", "1", "2", "3", "4", "5", "6", "7">>
TelefonoArea555SinMas == <<"5", "4", "5", "5", "5", "1", "2", "3", "4", "5", "6", "7">>
Telefonos == {TelefonoA, TelefonoAFormateado, TelefonoCorto, TelefonoSinMas,
              TelefonoArea555, TelefonoArea555SinMas}

Ana == [Nombre |-> "Ana", Apellido |-> "Paz"]
Eva == [Nombre |-> "Eva", Apellido |-> "Paz"]

\* models.Resultado: the client's flag and the two times, in tenths of a
\* second (Tolerancia is not read by the server)
Resultado(gano, objetivo, obtenido) ==
    [Gano |-> gano, TiempoObjetivo |-> objetivo, TiempoObtenido |-> obtenido]
Gana == Resultado(TRUE, 75, 74)
Pierde == Resultado(FALSE, 75, 80)
ResultadosFueraDeRango ==
    {Resultado(TRUE, 49, 49), Resultado(TRUE, 201, 201), Resultado(FALSE, 75, -1),
     Resultado(FALSE, 75, 301)}

\* models.GameResult
GameResult(persona, telefono, resultado) ==
    [ClienteData |-> [Nombre |-> persona.Nombre, Apellido |-> persona.Apellido,
                      Telefono |-> telefono],
     Resultado |-> resultado]

\* The phone step of each phone number submitted, computed once
TelefonoNormalizado == [t \in Telefonos |-> NormalizarTelefono(t)]
TelefonoValido == [t \in Telefonos |-> ValidarTelefonoArgentino(TelefonoNormalizado[t])]

\* Submissions, as handed to ProcesarResultadoJuego, that fail its phone step
\* or its timing step
EntradasInvalidas ==
    {GameResult(Ana, tel, Gana) : tel \in {TelefonoCorto, TelefonoSinMas}}
    \cup {GameResult(Ana, TelefonoA, r) : r \in ResultadosFueraDeRango}

\* The submissions of Spec: one customer name, both spellings of the phone
\* number, and the invalid ones
EntradasValidas ==
    {GameResult(Ana, TelefonoA, Gana), GameResult(Ana, TelefonoAFormateado, Gana)}
Entradas == EntradasValidas \cup EntradasInvalidas

\* The submissions of SpecSecuencial: those of Spec and a lost game
EntradasSecuencial == Entradas \cup {GameResult(Ana, TelefonoA, Pierde)}

\* The submissions of SpecNombres: the same phone under two names
EntradasNombres == {GameResult(n, TelefonoA, Gana) : n \in {Ana, Eva}}

VARIABLES
    tolerance,   \* config.Game.Tolerance, as the decimal (in tenths) it was set from
    now,         \* the clock (time.Now), in days
    ticks,       \* how often the clock has advanced
    clientes,    \* table clientes, keyed by its unique telefono
    vouchers,    \* table vouchers, keyed by its unique codigo
    juego,       \* per submission in flight: position and locals of ProcesarResultadoJuego
    canje,       \* per redemption in flight: position and locals of CanjearVoucher
    envios,      \* goroutines started by `go enviarWhatsAppAsync` and not yet run
    exitos,      \* history: per voucher code, the CanjearVoucher calls that returned Success
    enviados,    \* history: per voucher code, the notification sends that were attempted
    aprobados,   \* history: the customers for whom a staff approval call returned nil
    usuarios,    \* table usuarios, keyed by its primary key
    tokens,      \* the JWTs that GenerateToken has signed
    cambio,      \* the CambiarPassword call in flight: position and locals
    acceso,      \* the answer of the last call of the auth service or middleware
    bajas,       \* history: the users whose last successful ActivarDesactivarUsuario
                 \* had activar=false
    evalIn,      \* the Resultado under evaluation, where a specification fixes one:
                 \* <<resultado>>, or <<>>
    evalOut      \* its result: <<gano>>, or <<>> before the evaluation

\* The state of staff authentication
authVars == <<usuarios, tokens, cambio, acceso, bajas>>

vars == <<tolerance, now, ticks, clientes, vouchers, juego, canje, envios, exitos, enviados, aprobados, usuarios, tokens, cambio, acceso, bajas, evalIn, evalOut>>

(***************************************************************************)
(* Game Rules Evaluator                                                    *)
(***************************************************************************)
Tolerance == Float64[tolerance]

\* The comparison made strict: the variant of determinarSiGano that C9's
\* formula must tell apart
determinarSiGanoEstricto(resultado) ==
    LET diferencia == FAbs(FSub(Float64[resultado.TiempoObtenido],
                                Float64[resultado.TiempoObjetivo]))
    IN  FLess(diferencia, Tolerance)

\* The client's flag believed: the variant of determinarSiGano that C15's
\* formula must tell apart
determinarSiGanoBandera(resultado) == resultado.Gano

\* GameService.determinarSiGano
determinarSiGano(resultado) ==
    LET diferencia == FAbs(FSub(Float64[resultado.TiempoObtenido],
                                Float64[resultado.TiempoObjetivo]))
    IN  FLessEq(diferencia, Tolerance)

\* The range check of the target time left out: the variant of
\* validarDatosJuego that C10's formula must tell apart
validarDatosJuegoSinObjetivo(resultado) ==
    LET obtenido == Float64[resultado.TiempoObtenido]
    IN  ~(FLess(obtenido, FZero) \/ FLess(Float64[MaxObtenido], obtenido))

\* GameService.validarDatosJuego: TRUE when it returns nil
validarDatosJuego(resultado) ==
    LET objetivo == Float64[resultado.TiempoObjetivo]
        obtenido == Float64[resultado.TiempoObtenido]
    IN  IF FLess(objetivo, Float64[MinTargetTime]) \/ FLess(Float64[MaxTargetTime], objetivo)
        THEN FALSE
        ELSE IF FLess(obtenido, FZero) \/ FLess(Float64[MaxObtenido], obtenido)
             THEN FALSE
             ELSE TRUE

\* The binding tags of models.Resultado, which c.ShouldBindJSON enforces
\* before the handler calls the service: `required` rejects the zero value
\* of a float64, `min` and `max` compare the value with the tag's number.
\* TRUE when the binding succeeds.
BindingResultado(resultado) ==
    LET objetivo == Float64[resultado.TiempoObjetivo]
        obtenido == Float64[resultado.TiempoObtenido]
    IN  /\ objetivo # FZero
        /\ FLessEq(Float64[MinTargetTime], objetivo)
        /\ FLessEq(objetivo, Float64[MaxTargetTime])
        /\ obtenido # FZero
        /\ FLessEq(FZero, obtenido)

\* The timing data of a request with a valid customer part reaches the
\* evaluation: it passes the binding of SubmitGameResult and then
\* validarDatosJuego
TiemposAceptados(resultado) ==
    BindingResultado(resultado) /\ validarDatosJuego(resultado)

(***************************************************************************)
(* The store                                                               *)
(***************************************************************************)
\* gorm Save: writes every column of the row that has the given key
Save(tabla, clave, fila) ==
    [k \in DOMAIN tabla \cup {clave} |-> IF k = clave THEN fila ELSE tabla[k]]

\* A table without a unique index, which rejects nothing: the variant of
\* Duplicado that C19's formula must tell apart
DuplicadoAdmitido(tabla, clave) == FALSE

\* gorm Create on a table with a unique index on the key: TRUE when rejected
Duplicado(tabla, clave) == clave \in DOMAIN tabla

(***************************************************************************)
(* GameService.ProcesarResultadoJuego                                      *)
(***************************************************************************)
JuegoIdle ==
    [pc |-> "idle", datos |-> Nil, cliente |-> Nil, esNuevo |-> FALSE,
     gano |-> FALSE, voucher |-> Nil, resp |-> Nil, err |-> Nil]

\* models.VoucherResponse
Rechazo(motivo) ==
    [Success |-> FALSE, Message |-> motivo, Codigo |-> Nil, Descuento |-> 0,
     NecesitaAprobacion |-> FALSE, EsClienteNuevo |-> FALSE]

\* A return of ProcesarResultadoJuego: the locals are gone, the response
\* remains until it is delivered.  Every return statement of the function
\* (lines 49-52, 57-60, 77-80, 90-95, 101-104, 111-120) returns nil as its error.
Termina(resp) == [JuegoIdle EXCEPT !.pc = "done", !.resp = resp, !.err = Nil]

\* GameHandler.SubmitGameResult, lines 68-89: the HTTP answer to what
\* ProcesarResultadoJuego returned
RespuestaHTTP(resp, err) ==
    IF err # Nil
    THEN [Status |-> 500, Success |-> FALSE, Message |-> "Error interno del servidor"]
    ELSE [Status |-> 200, Success |-> resp.Success, Message |-> resp.Message]

\* The phone validated as submitted, not as normalized: the variant of
\* RechazaTelefono that C8's formula must tell apart
RechazaTelefonoSinNormalizar(gameResult) ==
    ~ValidarTelefonoArgentino(gameResult.ClienteData.Telefono)

\* Lines 45-53: the phone step; TRUE when the submission is rejected by it
RechazaTelefono(gameResult) == ~TelefonoValido[gameResult.ClienteData.Telefono]

\* Lines 55-61: the timing step; TRUE when the submission is rejected by it
RechazaDatos(gameResult) == ~validarDatosJuego(gameResult.Resultado)

\* Lines 83-96: the threshold gate, on the customer crearOBuscarCliente returned
necesitaAprobacion(cliente) == cliente.TotalJuegos >= GamesRequireApproval

\* Lines 83-99: after crearOBuscarCliente, decline or go on to the voucher
TrasCliente(j, cliente, esNuevo) ==
    IF necesitaAprobacion(cliente)
    THEN Termina([Rechazo("Este cliente necesita aprobacion") EXCEPT !.NecesitaAprobacion = TRUE])
    ELSE [j EXCEPT !.pc = "crearVoucher", !.datos = Nil, !.cliente = cliente, !.esNuevo = esNuevo]

\* Lines 168-177: the row of a new customer
nuevoCliente(clienteData) ==
    [Nombre |-> clienteData.Nombre, Apellido |-> clienteData.Apellido,
     Telefono |-> clienteData.Telefono, FechaRegistro |-> now,
     FechaUltimoJuego |-> Nil, TotalJuegos |-> 0, JuegosGanados |-> 0,
     JuegosPerdidos |-> 0, Estado |-> "activo"]

\* Lines 71-75: the ClienteData handed to crearOBuscarCliente
DatosNormalizados(gameResult) ==
    [Nombre |-> gameResult.ClienteData.Nombre, Apellido |-> gameResult.ClienteData.Apellido,
     Telefono |-> TelefonoNormalizado[gameResult.ClienteData.Telefono]]

\* Lines 39-96 and 163-165, 189-205: validation, evaluation and the lookup
\* BuscarPorTelefono; `falla` is an error of the lookup other than not-found.
Recibir(p, gameResult, falla) ==
    /\ juego[p].pc = "idle"
    /\ \A q \in Juegos : q < p => juego[q].pc # "idle"   \* the first free slot takes it
    /\ LET j == juego[p]
           datos == DatosNormalizados(gameResult)
           gano == determinarSiGano(gameResult.Resultado)
       IN  juego' = [juego EXCEPT ![p] =
             IF RechazaTelefono(gameResult) THEN Termina(Rechazo("Numero de telefono no valido"))
             ELSE IF RechazaDatos(gameResult) THEN Termina(Rechazo("Datos del juego invalidos"))
             ELSE IF falla \/ datos.Telefono \notin DOMAIN clientes
                  THEN [j EXCEPT !.pc = "crearCliente", !.gano = gano, !.datos = datos]
                  ELSE LET cliente == clientes[datos.Telefono]
                       IN  IF cliente.Nombre # datos.Nombre \/ cliente.Apellido # datos.Apellido
                           THEN [j EXCEPT !.pc = "actualizarNombre", !.gano = gano,
                                          !.cliente = [cliente EXCEPT !.Nombre = datos.Nombre,
                                                                      !.Apellido = datos.Apellido]]
                           ELSE TrasCliente([j EXCEPT !.gano = gano], cliente, FALSE)]
    /\ UNCHANGED <<tolerance, now, ticks, clientes, vouchers, canje, envios, exitos, enviados, aprobados, authVars, evalIn, evalOut>>

\* A create that replaces the row already stored under the phone: the
\* variant of CrearCliente that C29's formula must tell apart
CrearClienteSobrescribe(p, falla) ==
    /\ juego[p].pc = "crearCliente"
    /\ LET j == juego[p]
           nuevo == nuevoCliente(j.datos)
       IN  IF falla
           THEN /\ juego' = [juego EXCEPT ![p] = Termina(Rechazo("Error al procesar cliente"))]
                /\ UNCHANGED clientes
           ELSE /\ clientes' = Save(clientes, nuevo.Telefono, nuevo)
                /\ juego' = [juego EXCEPT ![p] = TrasCliente(j, nuevo, TRUE)]
    /\ UNCHANGED <<tolerance, now, ticks, vouchers, canje, envios, exitos, enviados, aprobados, authVars, evalIn, evalOut>>

\* Lines 166-187: clienteRepo.Crear of the new customer
CrearCliente(p, falla) ==
    /\ juego[p].pc = "crearCliente"
    /\ LET j == juego[p]
           nuevo == nuevoCliente(j.datos)
       IN  IF falla \/ Duplicado(clientes, nuevo.Telefono)
           THEN /\ juego' = [juego EXCEPT ![p] = Termina(Rechazo("Error al procesar cliente"))]
                /\ UNCHANGED clientes
           ELSE /\ clientes' = Save(clientes, nuevo.Telefono, nuevo)
                /\ juego' = [juego EXCEPT ![p] = TrasCliente(j, nuevo, TRUE)]
    /\ UNCHANGED <<tolerance, now, ticks, vouchers, canje, envios, exitos, enviados, aprobados, authVars, evalIn, evalOut>>

\* Lines 197-205: clienteRepo.Actualizar of the renamed customer; its error is logged
ActualizarNombre(p, falla) ==
    /\ juego[p].pc = "actualizarNombre"
    /\ LET j == juego[p]
       IN  /\ clientes' = IF falla THEN clientes ELSE Save(clientes, j.cliente.Telefono, j.cliente)
           /\ juego' = [juego EXCEPT ![p] = TrasCliente(j, j.cliente, FALSE)]
    /\ UNCHANGED <<tolerance, now, ticks, vouchers, canje, envios, exitos, enviados, aprobados, authVars, evalIn, evalOut>>

\* GameService.generarCodigoVoucher: prefix, time modulo 100000, random number
\* (the time is the model's clock; codes made at one time differ in the
\* random number only)
generarCodigoVoucher(random) == <<"CH", now % 100000, random>>

\* The random numbers drawn for a code at the current time: one already used
\* at this time (a collision) or the least unused one.  Codes with the same
\* time differ only in this number and nothing reads it, so drawing the
\* least unused one stands for drawing any unused one.
Randoms ==
    {r \in 0..(RandRange - 1) :
        \A q \in 0..(r - 1) : generarCodigoVoucher(q) \in DOMAIN vouchers}

\* The discount and type of a won game given whatever the outcome: the
\* variant of nuevoVoucher that C11's formula must tell apart
nuevoVoucherSiempreGanador(cliente, gano, random, retraso) ==
    [Codigo |-> generarCodigoVoucher(random), ClienteID |-> cliente.Telefono,
     Tipo |-> "juego_ganado", Descuento |-> WinDiscount,
     Ganado |-> gano, FechaEmision |-> now,
     FechaVencimiento |-> (now + retraso) + VoucherValidityDays,
     Usado |-> FALSE, FechaUso |-> Nil, UsuarioCanje |-> Nil]

\* Lines 210-231: the voucher of crearVoucherYActualizarCliente.  The clock
\* is read at line 228 for FechaEmision and again at line 229 for
\* FechaVencimiento; `retraso` is how far it advanced between the two
\* readings, in units of the model's clock.
nuevoVoucher(cliente, gano, random, retraso) ==
    [Codigo |-> generarCodigoVoucher(random), ClienteID |-> cliente.Telefono,
     Tipo |-> IF gano THEN "juego_ganado" ELSE "juego_perdido",
     Descuento |-> IF gano THEN WinDiscount ELSE LoseDiscount,
     Ganado |-> gano, FechaEmision |-> now,
     FechaVencimiento |-> (now + retraso) + VoucherValidityDays,
     Usado |-> FALSE, FechaUso |-> Nil, UsuarioCanje |-> Nil]

\* Lines 209-235 and 100-105: voucherRepo.Crear
CrearVoucher(p, random, retraso, falla) ==
    /\ juego[p].pc = "crearVoucher"
    /\ LET j == juego[p]
           voucher == nuevoVoucher(j.cliente, j.gano, random, retraso)
       IN  IF falla \/ Duplicado(vouchers, voucher.Codigo)
           THEN /\ juego' = [juego EXCEPT ![p] = Termina(Rechazo("Error al crear voucher"))]
                /\ UNCHANGED vouchers
           ELSE /\ vouchers' = Save(vouchers, voucher.Codigo, voucher)
                /\ juego' = [juego EXCEPT ![p] = [j EXCEPT !.pc = "actualizarStats", !.voucher = voucher]]
    /\ UNCHANGED <<tolerance, now, ticks, clientes, canje, envios, exitos, enviados, aprobados, authVars, evalIn, evalOut>>

\* Only TotalJuegos counted: the variant of ConEstadisticas that C25's
\* formula must tell apart
ConEstadisticasSoloTotal(cliente, gano) ==
    [cliente EXCEPT !.TotalJuegos = @ + 1, !.FechaUltimoJuego = now]

\* A game counted twice: the variant of ConEstadisticas that C26's formula
\* must tell apart
ConEstadisticasDoble(cliente, gano) ==
    [cliente EXCEPT !.TotalJuegos = @ + 2,
                    !.FechaUltimoJuego = now,
                    !.JuegosGanados = IF gano THEN @ + 2 ELSE @,
                    !.JuegosPerdidos = IF gano THEN @ ELSE @ + 2]

\* Lines 237-246: the counters of the local customer after the game
ConEstadisticas(cliente, gano) ==
    [cliente EXCEPT !.TotalJuegos = @ + 1,
                    !.FechaUltimoJuego = now,
                    !.JuegosGanados = IF gano THEN @ + 1 ELSE @,
                    !.JuegosPerdidos = IF gano THEN @ ELSE @ + 1]

\* GameService.generarMensajeExito; the percentage it prints is the Descuento
\* field of the response
generarMensajeExito(gano) ==
    IF gano THEN "Felicitaciones! Ganaste un descuento"
    ELSE "Casi! Tienes un descuento de consolacion"

\* A failed counter write that aborts the call: the variant of
\* ActualizarStats that C24's formula must tell apart
ActualizarStatsAborta(p, falla) ==
    /\ juego[p].pc = "actualizarStats"
    /\ Cardinality(envios) < MaxEnvios
    /\ LET j == juego[p]
           cliente == ConEstadisticas(j.cliente, j.gano)
       IN  IF falla
           THEN /\ juego' = [juego EXCEPT ![p] = Termina(Rechazo("Error al crear voucher"))]
                /\ UNCHANGED <<clientes, envios>>
           ELSE /\ clientes' = Save(clientes, cliente.Telefono, cliente)
                /\ envios' = envios \cup {[Telefono |-> cliente.Telefono, Codigo |-> j.voucher.Codigo,
                                           gano |-> j.gano]}
                /\ juego' = [juego EXCEPT ![p] = Termina(
                      [Success |-> TRUE, Message |-> generarMensajeExito(j.gano), Codigo |-> j.voucher.Codigo,
                       Descuento |-> j.voucher.Descuento, NecesitaAprobacion |-> FALSE,
                       EsClienteNuevo |-> j.esNuevo])]
    /\ UNCHANGED <<tolerance, now, ticks, vouchers, canje, exitos, enviados, aprobados, authVars, evalIn, evalOut>>

\* Lines 237-257 and 107-121: clienteRepo.Actualizar of the counters (its error
\* is logged), the start of the notification goroutine and the response
ActualizarStats(p, falla) ==
    /\ juego[p].pc = "actualizarStats"
    /\ Cardinality(envios) < MaxEnvios
    /\ LET j == juego[p]
           cliente == ConEstadisticas(j.cliente, j.gano)
       IN  /\ clientes' = IF falla THEN clientes ELSE Save(clientes, cliente.Telefono, cliente)
           /\ envios' = envios \cup {[Telefono |-> cliente.Telefono, Codigo |-> j.voucher.Codigo,
                                      gano |-> j.gano]}
           /\ juego' = [juego EXCEPT ![p] = Termina(
                 [Success |-> TRUE, Message |-> generarMensajeExito(j.gano), Codigo |-> j.voucher.Codigo,
                  Descuento |-> j.voucher.Descuento, NecesitaAprobacion |-> FALSE,
                  EsClienteNuevo |-> j.esNuevo])]
    /\ UNCHANGED <<tolerance, now, ticks, vouchers, canje, exitos, enviados, aprobados, authVars, evalIn, evalOut>>

\* The sends attempted so far for the voucher of a code
Intentos(codigo) == IF codigo \in DOMAIN enviados THEN enviados[codigo] ELSE 0

\* A failed send that withdraws the voucher it could not deliver: the variant
\* of enviarWhatsAppAsync that C14's formula must tell apart
enviarWhatsAppAsyncRetira(e, ok) ==
    /\ e \in envios
    /\ ok \in BOOLEAN
    /\ envios' = envios \ {e}
    /\ enviados' = Save(enviados, e.Codigo, Intentos(e.Codigo) + 1)
    /\ vouchers' = IF ok THEN vouchers
                   ELSE [k \in DOMAIN vouchers \ {e.Codigo} |-> vouchers[k]]
    /\ UNCHANGED <<tolerance, now, ticks, clientes, juego, canje, exitos, aprobados, authVars, evalIn, evalOut>>

\* A failed send left to be tried once more: the variant of
\* enviarWhatsAppAsync that C18's formula must tell apart
enviarWhatsAppAsyncReintenta(e, ok) ==
    /\ e \in envios
    /\ ok \in BOOLEAN
    /\ envios' = IF ok \/ Intentos(e.Codigo) > 0 THEN envios \ {e} ELSE envios
    /\ enviados' = Save(enviados, e.Codigo, Intentos(e.Codigo) + 1)
    /\ UNCHANGED <<tolerance, now, ticks, clientes, vouchers, juego, canje, exitos, aprobados, authVars, evalIn, evalOut>>

\* GameService.enviarWhatsAppAsync: one call of EnviarVoucherGanador or
\* EnviarVoucherPerdedor, which succeeds or fails; both are only logged
enviarWhatsAppAsync(e, ok) ==
    /\ e \in envios
    /\ ok \in BOOLEAN
    /\ envios' = envios \ {e}
    /\ enviados' = Save(enviados, e.Codigo, Intentos(e.Codigo) + 1)
    /\ UNCHANGED <<tolerance, now, ticks, clientes, vouchers, juego, canje, exitos, aprobados, authVars, evalIn, evalOut>>

\* GameHandler.SubmitGameResult writes the response; the request is over
Responder(p) ==
    /\ juego[p].pc = "done"
    /\ juego' = [juego EXCEPT ![p] = JuegoIdle]
    /\ UNCHANGED <<tolerance, now, ticks, clientes, vouchers, canje, envios, exitos, enviados, aprobados, authVars, evalIn, evalOut>>

(***************************************************************************)
(* Staff approval of a frequent customer                                   *)
(***************************************************************************)
\* AdminService.AprobarJuegoFrecuente: BuscarPorID, the check against the
\* literal 3, a log line and return nil; nothing is stored.  `falla` is an
\* error of the lookup.
AprobarJuegoFrecuente(telefono, falla) ==
    /\ aprobados' = IF falla \/ telefono \notin DOMAIN clientes THEN aprobados
                    ELSE IF clientes[telefono].TotalJuegos < 3 THEN aprobados
                    ELSE aprobados \cup {telefono}
    /\ UNCHANGED <<tolerance, now, ticks, clientes, vouchers, juego, canje, envios, exitos,
                   enviados, authVars, evalIn, evalOut>>

\* GameService.ValidarAprobacionJuego: the same against GamesRequireApproval
ValidarAprobacionJuego(telefono, falla) ==
    /\ aprobados' = IF falla \/ telefono \notin DOMAIN clientes THEN aprobados
                    ELSE IF clientes[telefono].TotalJuegos < GamesRequireApproval THEN aprobados
                    ELSE aprobados \cup {telefono}
    /\ UNCHANGED <<tolerance, now, ticks, clientes, vouchers, juego, canje, envios, exitos,
                   enviados, authVars, evalIn, evalOut>>

(***************************************************************************)
(* AdminService.CanjearVoucher                                             *)
(***************************************************************************)
CanjeIdle == [pc |-> "idle", codigo |-> Nil, tarde |-> FALSE, voucher |-> Nil, resp |-> Nil]

\* models.CanjearVoucherResponse
RespuestaCanje(success, motivo, descuento) ==
    [Success |-> success, Message |-> motivo, Descuento |-> descuento]

\* A return of CanjearVoucher; `tarde` (history) tells whether the call began
\* after another call on the same code had returned Success
TerminaCanje(k, resp) == [CanjeIdle EXCEPT !.pc = "done", !.codigo = k.codigo,
                                           !.tarde = k.tarde, !.resp = resp]

\* The used check left out: the variant of YaUsado that C2's formula must tell apart
YaUsadoOmitido(voucher) == FALSE

\* Lines 91-98: the voucher read was already used
YaUsado(voucher) == voucher.Usado

\* Lines 100-107: voucher.FechaVencimiento.Before(time.Now())
Vencido(voucher) == voucher.FechaVencimiento < now

\* A redemption that sets the flag and the employee but not the date: the
\* variant of Canjeado that C28's formula must tell apart
CanjeadoSinFecha(voucher, empleadoID) ==
    [voucher EXCEPT !.Usado = TRUE, !.UsuarioCanje = empleadoID]

\* Lines 109-113: the voucher marked as used by the employee, at the second
\* reading of the clock
Canjeado(voucher, empleadoID) ==
    [voucher EXCEPT !.Usado = TRUE, !.FechaUso = now, !.UsuarioCanje = empleadoID]

\* Lines 79-107: voucherRepo.BuscarPorCodigo and the two checks, the second
\* at the first reading of the clock
BuscarVoucher(c, codigo, falla) ==
    /\ canje[c].pc = "idle"
    /\ LET k == [canje[c] EXCEPT !.codigo = codigo,
                                 !.tarde = codigo \in DOMAIN exitos]
       IN  canje' = [canje EXCEPT ![c] =
             IF falla \/ codigo \notin DOMAIN vouchers
             THEN TerminaCanje(k, RespuestaCanje(FALSE, "Codigo de voucher no valido", 0))
             ELSE LET voucher == vouchers[codigo]
                  IN  IF YaUsado(voucher)
                      THEN TerminaCanje(k, RespuestaCanje(FALSE, "Este voucher ya fue utilizado", voucher.Descuento))
                      ELSE IF Vencido(voucher)
                           THEN TerminaCanje(k, RespuestaCanje(FALSE, "Este voucher esta vencido", voucher.Descuento))
                           ELSE [k EXCEPT !.pc = "actualizar", !.voucher = voucher]]
    /\ UNCHANGED <<tolerance, now, ticks, clientes, vouchers, juego, envios, exitos, enviados, aprobados, authVars, evalIn, evalOut>>

\* An update that reports an error after the row was written: the variant
\* of ActualizarVoucher that C20's formula must tell apart
ActualizarVoucherEscribe(c, falla) ==
    /\ canje[c].pc = "actualizar"
    /\ LET k == canje[c]
           voucher == Canjeado(k.voucher, c)
       IN  /\ vouchers' = Save(vouchers, voucher.Codigo, voucher)
           /\ IF falla
              THEN /\ canje' = [canje EXCEPT ![c] =
                                   TerminaCanje(k, RespuestaCanje(FALSE, "Error interno procesando canje", 0))]
                   /\ UNCHANGED exitos
              ELSE /\ exitos' = Save(exitos, voucher.Codigo,
                                     IF voucher.Codigo \in DOMAIN exitos
                                     THEN exitos[voucher.Codigo] + 1 ELSE 1)
                   /\ canje' = [canje EXCEPT ![c] =
                                   TerminaCanje(k, RespuestaCanje(TRUE, "Voucher canjeado correctamente", voucher.Descuento))]
    /\ UNCHANGED <<tolerance, now, ticks, clientes, juego, envios, enviados, aprobados, authVars, evalIn, evalOut>>

\* Lines 109-142: voucherRepo.Actualizar by employee c and the response
ActualizarVoucher(c, falla) ==
    /\ canje[c].pc = "actualizar"
    /\ LET k == canje[c]
           voucher == Canjeado(k.voucher, c)
       IN  IF falla
           THEN /\ canje' = [canje EXCEPT ![c] =
                                TerminaCanje(k, RespuestaCanje(FALSE, "Error interno procesando canje", 0))]
                /\ UNCHANGED <<vouchers, exitos>>
           ELSE /\ vouchers' = Save(vouchers, voucher.Codigo, voucher)
                /\ exitos' = Save(exitos, voucher.Codigo,
                                  IF voucher.Codigo \in DOMAIN exitos
                                  THEN exitos[voucher.Codigo] + 1 ELSE 1)
                /\ canje' = [canje EXCEPT ![c] =
                                TerminaCanje(k, RespuestaCanje(TRUE, "Voucher canjeado correctamente", voucher.Descuento))]
    /\ UNCHANGED <<tolerance, now, ticks, clientes, juego, envios, enviados, aprobados, authVars, evalIn, evalOut>>

\* The caller of CanjearVoucher receives the response; the call is over
ResponderCanje(c) ==
    /\ canje[c].pc = "done"
    /\ canje' = [canje EXCEPT ![c] = CanjeIdle]
    /\ UNCHANGED <<tolerance, now, ticks, clientes, vouchers, juego, envios, exitos, enviados, aprobados, authVars, evalIn, evalOut>>

\* The clock advances by a day or by the validity window of a voucher
AvanzarReloj(d) ==
    /\ ticks < MaxTicks
    /\ ticks' = ticks + 1
    /\ now' = now + d
    /\ UNCHANGED <<tolerance, clientes, vouchers, juego, canje, envios, exitos, enviados, aprobados, authVars, evalIn, evalOut>>

(***************************************************************************)
(* Staff authentication: AuthService and AuthMiddleware                    *)
(***************************************************************************)
Expiration == 1       \* AuthService.expiration, 24 hours, in days of the clock
JwtSecret == "secret"

\* The users of the house and an id that no user has
Admin == 1
Empleado == 2
UsuarioDesconocido == 3
PasswordInicial == <<"q", "u", "e", "s", "o", "1">>
PasswordNueva == <<"q", "u", "e", "s", "o", "2">>
PasswordCorta == <<"a", "b", "c">>
Passwords == {PasswordInicial, PasswordNueva, PasswordCorta}

\* bcrypt.GenerateFromPassword and bcrypt.CompareHashAndPassword (TRUE when nil)
Hash(password) == <<"bcrypt", password>>
CompareHashAndPassword(hash, password) == hash = Hash(password)

\* models.Usuario, with the name of its preloaded Rol
Usuario(id, rolName) ==
    [ID |-> id, PasswordHash |-> Hash(PasswordInicial), RolName |-> rolName, Activo |-> TRUE]
UsuariosIniciales ==
    [id \in {Admin, Empleado} |-> Usuario(id, IF id = Admin THEN "admin" ELSE "empleado")]

CambioIdle == [pc |-> "idle", usuario |-> Nil]
SinAcceso == [Op |-> Nil, UserID |-> 0, Status |-> 0, Err |-> Nil]

\* What a call answered: the HTTP status of the middleware (0 for a call of
\* the service) and the error (Nil for none)
Acceso(op, userID, status, err) ==
    [Op |-> op, UserID |-> userID, Status |-> status, Err |-> err]

\* AuthService.GenerateToken: the claims, signed with the secret
GenerateToken(usuario) ==
    [UserID |-> usuario.ID, RolName |-> usuario.RolName,
     ExpiresAt |-> now + Expiration, Firma |-> JwtSecret]

\* A token signed with another secret
TokenFalso ==
    [UserID |-> Empleado, RolName |-> "empleado",
     ExpiresAt |-> MaxTicks + Expiration, Firma |-> "otra"]

\* AuthService.ValidateToken: TRUE when it returns claims (the signature is
\* of the secret and the clock is before ExpiresAt)
ValidateToken(token) == token.Firma = JwtSecret /\ now < token.ExpiresAt

\* AuthService.EsAdmin
EsAdmin(usuario) == usuario.RolName = "admin"

\* AuthService.GetUsuarioFromToken: Nil when it returns the user, else its error
GetUsuarioFromToken(token, falla) ==
    IF ~ValidateToken(token) THEN "token invalido"
    ELSE IF falla \/ token.UserID \notin DOMAIN usuarios THEN "usuario no encontrado"
    ELSE IF ~usuarios[token.UserID].Activo THEN "usuario desactivado"
    ELSE Nil

\* AuthService.Login with the email of user id
Login(id, password, falla) ==
    /\ IF falla \/ id \notin DOMAIN usuarios
       THEN /\ acceso' = Acceso("Login", id, 0, "Credenciales invalidas")
            /\ UNCHANGED tokens
       ELSE LET usuario == usuarios[id]
            IN  IF ~usuario.Activo
                THEN /\ acceso' = Acceso("Login", id, 0, "Cuenta desactivada")
                     /\ UNCHANGED tokens
                ELSE IF ~CompareHashAndPassword(usuario.PasswordHash, password)
                     THEN /\ acceso' = Acceso("Login", id, 0, "Credenciales invalidas")
                          /\ UNCHANGED tokens
                     ELSE /\ tokens' = tokens \cup {GenerateToken(usuario)}
                          /\ acceso' = Acceso("Login", id, 0, Nil)
    /\ UNCHANGED <<tolerance, now, ticks, clientes, vouchers, juego, canje, envios, exitos,
                   enviados, aprobados, usuarios, cambio, bajas, evalIn, evalOut>>

\* AuthMiddleware.RequireAuth on a request that carries the token as its
\* Bearer token, or (presenta = FALSE) carries none
RequireAuth(presenta, token, falla) ==
    /\ acceso' =
          IF ~presenta
          THEN Acceso("RequireAuth", 0, 401, "Token de autenticacion requerido")
          ELSE IF ~ValidateToken(token)
               THEN Acceso("RequireAuth", token.UserID, 401, "Token invalido o expirado")
               ELSE IF GetUsuarioFromToken(token, falla) # Nil
                    THEN Acceso("RequireAuth", token.UserID, 401, "Usuario no valido")
                    ELSE Acceso("RequireAuth", token.UserID, 200, Nil)
    /\ UNCHANGED <<tolerance, now, ticks, clientes, vouchers, juego, canje, envios, exitos,
                   enviados, aprobados, usuarios, tokens, cambio, bajas, evalIn, evalOut>>

\* AuthService.RefreshToken
RefreshToken(oldToken, falla) ==
    /\ IF ~ValidateToken(oldToken)
       THEN /\ acceso' = Acceso("RefreshToken", oldToken.UserID, 0, "token invalido para refresh")
            /\ UNCHANGED tokens
       ELSE IF falla \/ oldToken.UserID \notin DOMAIN usuarios
            THEN /\ acceso' = Acceso("RefreshToken", oldToken.UserID, 0, "usuario no encontrado")
                 /\ UNCHANGED tokens
            ELSE IF ~usuarios[oldToken.UserID].Activo
                 THEN /\ acceso' = Acceso("RefreshToken", oldToken.UserID, 0, "usuario desactivado")
                      /\ UNCHANGED tokens
                 ELSE /\ tokens' = tokens \cup {GenerateToken(usuarios[oldToken.UserID])}
                      /\ acceso' = Acceso("RefreshToken", oldToken.UserID, 0, Nil)
    /\ UNCHANGED <<tolerance, now, ticks, clientes, vouchers, juego, canje, envios, exitos,
                   enviados, aprobados, usuarios, cambio, bajas, evalIn, evalOut>>

\* AuthService.ActivarDesactivarUsuario
ActivarDesactivarUsuario(userID, activar, requestedBy, falla) ==
    /\ IF requestedBy \notin DOMAIN usuarios
       THEN /\ acceso' = Acceso("ActivarDesactivarUsuario", userID, 0, "solicitante no encontrado")
            /\ UNCHANGED <<usuarios, bajas>>
       ELSE IF ~EsAdmin(usuarios[requestedBy])
            THEN /\ acceso' = Acceso("ActivarDesactivarUsuario", userID, 0, "sin permisos para modificar usuarios")
                 /\ UNCHANGED <<usuarios, bajas>>
            ELSE IF userID = requestedBy
                 THEN /\ acceso' = Acceso("ActivarDesactivarUsuario", userID, 0, "no puedes desactivar tu propia cuenta")
                      /\ UNCHANGED <<usuarios, bajas>>
                 ELSE IF userID \notin DOMAIN usuarios
                      THEN /\ acceso' = Acceso("ActivarDesactivarUsuario", userID, 0, "usuario no encontrado")
                           /\ UNCHANGED <<usuarios, bajas>>
                      ELSE IF falla
                           THEN /\ acceso' = Acceso("ActivarDesactivarUsuario", userID, 0, "error actualizando usuario")
                                /\ UNCHANGED <<usuarios, bajas>>
                           ELSE /\ usuarios' = Save(usuarios, userID,
                                                    [usuarios[userID] EXCEPT !.Activo = activar])
                                /\ bajas' = IF activar THEN bajas \ {userID}
                                                       ELSE bajas \cup {userID}
                                /\ acceso' = Acceso("ActivarDesactivarUsuario", userID, 0, Nil)
    /\ UNCHANGED <<tolerance, now, ticks, clientes, vouchers, juego, canje, envios, exitos,
                   enviados, aprobados, tokens, cambio, evalIn, evalOut>>

\* AuthService.CambiarPassword, lines 235-252: the user read, the current
\* password compared, the new one hashed into the copy read
CambiarPasswordBuscar(userID, currentPassword, newPassword, falla) ==
    /\ cambio.pc = "idle"
    /\ IF falla \/ userID \notin DOMAIN usuarios
       THEN /\ acceso' = Acceso("CambiarPassword", userID, 0, "usuario no encontrado")
            /\ UNCHANGED cambio
       ELSE LET usuario == usuarios[userID]
            IN  IF ~CompareHashAndPassword(usuario.PasswordHash, currentPassword)
                THEN /\ acceso' = Acceso("CambiarPassword", userID, 0, "contrasena actual incorrecta")
                     /\ UNCHANGED cambio
                ELSE IF Len(newPassword) < 6
                     THEN /\ acceso' = Acceso("CambiarPassword", userID, 0, "contrasena debe tener al menos 6 caracteres")
                          /\ UNCHANGED cambio
                     ELSE /\ cambio' = [pc |-> "actualizar",
                                        usuario |-> [usuario EXCEPT !.PasswordHash = Hash(newPassword)]]
                          /\ UNCHANGED acceso
    /\ UNCHANGED <<tolerance, now, ticks, clientes, vouchers, juego, canje, envios, exitos,
                   enviados, aprobados, usuarios, tokens, bajas, evalIn, evalOut>>

\* AuthService.CambiarPassword, lines 253-259: usuarioRepo.Actualizar, a
\* gorm Save of the copy read
CambiarPasswordActualizar(falla) ==
    /\ cambio.pc = "actualizar"
    /\ IF falla
       THEN /\ acceso' = Acceso("CambiarPassword", cambio.usuario.ID, 0, "error actualizando contrasena")
            /\ UNCHANGED usuarios
       ELSE /\ usuarios' = Save(usuarios, cambio.usuario.ID, cambio.usuario)
            /\ acceso' = Acceso("CambiarPassword", cambio.usuario.ID, 0, Nil)
    /\ cambio' = CambioIdle
    /\ UNCHANGED <<tolerance, now, ticks, clientes, vouchers, juego, canje, envios, exitos,
                   enviados, aprobados, tokens, bajas, evalIn, evalOut>>

(***************************************************************************)
(* Specification of the game workflow: submissions interleave step by step *)
(***************************************************************************)
EmptyTable == [k \in {} |-> Nil]

\* The empty store, the clock at its origin and no request in flight
InitStore ==
    /\ now = 0
    /\ ticks = 0
    /\ clientes = EmptyTable
    /\ vouchers = EmptyTable
    /\ juego = [p \in Juegos |-> JuegoIdle]
    /\ canje = [c \in Canjes |-> CanjeIdle]
    /\ envios = {}
    /\ exitos = EmptyTable
    /\ enviados = EmptyTable
    /\ aprobados = {}
    /\ usuarios = UsuariosIniciales
    /\ tokens = {}
    /\ cambio = CambioIdle
    /\ acceso = SinAcceso
    /\ bajas = {}

Init ==
    /\ InitStore
    /\ tolerance = DefaultTolerance
    /\ evalIn = <<>>
    /\ evalOut = <<>>

\* The steps of a submission that is past its lookup; the two clock readings
\* of a voucher are taken at the same instant
Seguir(p) ==
    \/ \E falla \in BOOLEAN : CrearCliente(p, falla)
    \/ \E random \in Randoms, falla \in BOOLEAN : CrearVoucher(p, random, 0, falla)
    \/ \E falla \in BOOLEAN : ActualizarStats(p, falla)
    \/ Responder(p)

Next ==
    \/ \E p \in Juegos, gameResult \in Entradas : Recibir(p, gameResult, FALSE)
    \/ \E p \in Juegos, gameResult \in EntradasValidas : Recibir(p, gameResult, TRUE)
    \/ \E p \in Juegos : Seguir(p)
    \/ \E e \in envios, ok \in BOOLEAN : enviarWhatsAppAsync(e, ok)

Spec == Init /\ [][Next]_vars

(***************************************************************************)
(* The game workflow with one submission at a time, won or lost            *)
(***************************************************************************)
NextSecuencial ==
    \/ \E gameResult \in EntradasSecuencial, falla \in BOOLEAN : Recibir(1, gameResult, falla)
    \/ Seguir(1)
    \/ \E e \in envios, ok \in BOOLEAN : enviarWhatsAppAsync(e, ok)

SpecSecuencial == Init /\ [][NextSecuencial]_vars

(***************************************************************************)
(* Voucher issuance with one submission at a time, while the clock runs:   *)
(* it may advance between the two readings that                            *)
(* crearVoucherYActualizarCliente takes for one voucher                    *)
(***************************************************************************)
Retrasos == 0..MaxRetraso

NextEmision ==
    \/ \E gameResult \in {GameResult(Ana, TelefonoA, Gana), GameResult(Ana, TelefonoA, Pierde)},
          falla \in BOOLEAN : Recibir(1, gameResult, falla)
    \/ \E falla \in BOOLEAN : CrearCliente(1, falla)
    \/ \E random \in Randoms, retraso \in Retrasos, falla \in BOOLEAN :
          CrearVoucher(1, random, retraso, falla)
    \/ \E falla \in BOOLEAN : ActualizarStats(1, falla)
    \/ Responder(1)
    \/ \E e \in envios, ok \in BOOLEAN : enviarWhatsAppAsync(e, ok)

SpecEmision == Init /\ [][NextEmision]_vars

(***************************************************************************)
(* The game workflow for a client who submits one Resultado, with its      *)
(* 'gano' flag set either way, one submission at a time                    *)
(***************************************************************************)
ResultadosBandera ==
    {Resultado(gano, Gana.TiempoObjetivo, obtenido) :
        gano \in BOOLEAN, obtenido \in {Gana.TiempoObtenido, Pierde.TiempoObtenido}}

InitBandera ==
    /\ InitStore
    /\ tolerance = DefaultTolerance
    /\ evalIn \in {<<resultado>> : resultado \in ResultadosBandera}
    /\ evalOut = <<>>

\* The submission of the client
EntradaBandera == GameResult(Ana, TelefonoA, evalIn[1])

NextBandera ==
    \/ \E falla \in BOOLEAN : Recibir(1, EntradaBandera, falla)
    \/ Seguir(1)
    \/ \E e \in envios, ok \in BOOLEAN : enviarWhatsAppAsync(e, ok)

SpecBandera == InitBandera /\ [][NextBandera]_vars

(***************************************************************************)
(* The game workflow for clients with several phone numbers, one           *)
(* submission at a time                                                    *)
(***************************************************************************)
EntradasTelefonos ==
    {GameResult(Ana, telefono, Gana) :
        telefono \in {TelefonoA, TelefonoCorto, TelefonoArea555, TelefonoArea555SinMas}}

NextTelefonos ==
    \/ \E gameResult \in EntradasTelefonos, falla \in BOOLEAN : Recibir(1, gameResult, falla)
    \/ Seguir(1)
    \/ \E e \in envios, ok \in BOOLEAN : enviarWhatsAppAsync(e, ok)

SpecTelefonos == Init /\ [][NextTelefonos]_vars

(***************************************************************************)
(* The game workflow while the store is available: an insert fails only    *)
(* when the unique index rejects it                                        *)
(***************************************************************************)
NextColision ==
    \/ \E p \in Juegos : Recibir(p, GameResult(Ana, TelefonoA, Gana), FALSE)
    \/ \E p \in Juegos : CrearCliente(p, FALSE)
    \/ \E p \in Juegos, random \in Randoms : CrearVoucher(p, random, 0, FALSE)
    \/ \E p \in Juegos : ActualizarStats(p, FALSE)
    \/ \E p \in Juegos : Responder(p)
    \/ \E e \in envios, ok \in BOOLEAN : enviarWhatsAppAsync(e, ok)

SpecColision == Init /\ [][NextColision]_vars

(***************************************************************************)
(* The game workflow with staff approval: one submission at a time, and    *)
(* the staff may approve the customer at any moment                        *)
(***************************************************************************)
NextAprobacion ==
    \/ \E falla \in BOOLEAN : Recibir(1, GameResult(Ana, TelefonoA, Gana), falla)
    \/ Seguir(1)
    \/ \E e \in envios, ok \in BOOLEAN : enviarWhatsAppAsync(e, ok)
    \/ \E falla \in BOOLEAN : AprobarJuegoFrecuente(TelefonoA, falla)
    \/ \E falla \in BOOLEAN : ValidarAprobacionJuego(TelefonoA, falla)

SpecAprobacion == Init /\ [][NextAprobacion]_vars

(***************************************************************************)
(* The counters of one customer: won and lost games are submitted for one  *)
(* phone and interleave step by step; the counter write may fail           *)
(***************************************************************************)
NextContadores ==
    \/ \E p \in Juegos, resultado \in {Gana, Pierde} :
          Recibir(p, GameResult(Ana, TelefonoA, resultado), FALSE)
    \/ \E p \in Juegos : CrearCliente(p, FALSE)
    \/ \E p \in Juegos, random \in Randoms : CrearVoucher(p, random, 0, FALSE)
    \/ \E p \in Juegos, falla \in BOOLEAN : ActualizarStats(p, falla)
    \/ \E p \in Juegos : Responder(p)
    \/ \E e \in envios, ok \in BOOLEAN : enviarWhatsAppAsync(e, ok)

SpecContadores == Init /\ [][NextContadores]_vars

(***************************************************************************)
(* The threshold over time: one customer submits won games one at a time   *)
(* while the clock advances; the counter write may fail                    *)
(***************************************************************************)
NextUmbral ==
    \/ Recibir(1, GameResult(Ana, TelefonoA, Gana), FALSE)
    \/ CrearCliente(1, FALSE)
    \/ \E random \in Randoms : CrearVoucher(1, random, 0, FALSE)
    \/ \E falla \in BOOLEAN : ActualizarStats(1, falla)
    \/ Responder(1)
    \/ \E e \in envios, ok \in BOOLEAN : enviarWhatsAppAsync(e, ok)
    \/ AvanzarReloj(1)

SpecUmbral == Init /\ [][NextUmbral]_vars

(***************************************************************************)
(* Staff authentication: logins, guarded requests, token refreshes,        *)
(* activation and deactivation by the administrator, and a password        *)
(* change of the employee, while the clock advances by days                *)
(***************************************************************************)
TokensPresentados == tokens \cup {TokenFalso}

NextAuth ==
    \/ \E id \in {Admin, Empleado, UsuarioDesconocido}, password \in {PasswordInicial, PasswordCorta} :
          Login(id, password, FALSE)
    \/ \E presenta \in BOOLEAN, token \in TokensPresentados, falla \in BOOLEAN :
          RequireAuth(presenta, token, falla)
    \/ \E token \in TokensPresentados, falla \in BOOLEAN : RefreshToken(token, falla)
    \/ \E userID \in {Admin, Empleado, UsuarioDesconocido}, activar \in BOOLEAN,
          requestedBy \in {Admin, Empleado}, falla \in BOOLEAN :
          ActivarDesactivarUsuario(userID, activar, requestedBy, falla)
    \/ \E currentPassword \in {PasswordInicial, PasswordCorta},
          newPassword \in {PasswordNueva, PasswordCorta}, falla \in BOOLEAN :
          CambiarPasswordBuscar(Empleado, currentPassword, newPassword, falla)
    \/ \E falla \in BOOLEAN : CambiarPasswordActualizar(falla)
    \/ AvanzarReloj(1)

SpecAuth == Init /\ [][NextAuth]_vars

(***************************************************************************)
(* The game workflow for one customer who submits under two names          *)
(***************************************************************************)
NextNombres ==
    \/ \E p \in Juegos, gameResult \in EntradasNombres, falla \in BOOLEAN : Recibir(p, gameResult, falla)
    \/ \E p \in Juegos, falla \in BOOLEAN : ActualizarNombre(p, falla)
    \/ \E p \in Juegos : Seguir(p)
    \/ \E e \in envios, ok \in BOOLEAN : enviarWhatsAppAsync(e, ok)

SpecNombres == Init /\ [][NextNombres]_vars

(***************************************************************************)
(* Redemption: vouchers are issued by one submission at a time, the clock  *)
(* advances and the redemption calls interleave step by step               *)
(***************************************************************************)
CodigoDesconocido == <<"CH", 99999, 999>>

NextCanje ==
    \/ /\ DOMAIN vouchers = {}
       /\ \E falla \in BOOLEAN : Recibir(1, GameResult(Ana, TelefonoA, Gana), falla)
    \/ Seguir(1)
    \/ \E e \in envios, ok \in BOOLEAN : enviarWhatsAppAsync(e, ok)
    \/ \E d \in {1, VoucherValidityDays} : AvanzarReloj(d)
    \/ \E c \in Canjes, codigo \in DOMAIN vouchers \cup {CodigoDesconocido}, falla \in BOOLEAN :
          BuscarVoucher(c, codigo, falla)
    \/ \E c \in Canjes, falla \in BOOLEAN : ActualizarVoucher(c, falla)
    \/ \E c \in Canjes : ResponderCanje(c)

SpecCanje == Init /\ [][NextCanje]_vars

(***************************************************************************)
(* The Game Rules Evaluator on its own: determinarSiGano applied to one    *)
(* pair of times under the default tolerance or one set from TOLERANCE     *)
(***************************************************************************)
Tolerancias == {DefaultTolerance, 5}
EvalObjetivos == MinTargetTime..MaxTargetTime
EvalEntradas ==
    {Resultado(FALSE, objetivo, objetivo + d) :
        objetivo \in EvalObjetivos, d \in (-MaxDiferencia)..MaxDiferencia}

InitEval ==
    /\ InitStore
    /\ tolerance \in Tolerancias
    /\ evalIn \in {<<resultado>> : resultado \in EvalEntradas}
    /\ evalOut = <<>>

Evaluar ==
    /\ Len(evalIn) = 1
    /\ Len(evalOut) = 0
    /\ evalOut' = <<determinarSiGano(evalIn[1])>>
    /\ UNCHANGED <<tolerance, now, ticks, clientes, vouchers, juego, canje, envios, exitos, enviados, aprobados, authVars, evalIn>>

NextEval == Evaluar

SpecEval == InitEval /\ [][NextEval]_vars

(***************************************************************************)
(* The validation of the timing data on its own: the binding and           *)
(* validarDatosJuego applied to one pair of times around the limits        *)
(***************************************************************************)
TiemposObjetivo == {0, MinTargetTime - 1, MinTargetTime, MinTargetTime + 1, Gana.TiempoObjetivo,
                    MaxTargetTime - 1, MaxTargetTime, MaxTargetTime + 1}
TiemposObtenido == {-1, 0, 1, Gana.TiempoObtenido, MaxObtenido - 1, MaxObtenido,
                    MaxObtenido + 1, MaxObtenido + 10}
EntradasTiempos ==
    {Resultado(FALSE, objetivo, obtenido) :
        objetivo \in TiemposObjetivo, obtenido \in TiemposObtenido}

InitTiempos ==
    /\ InitStore
    /\ tolerance = DefaultTolerance
    /\ evalIn \in {<<resultado>> : resultado \in EntradasTiempos}
    /\ evalOut = <<>>

Validar ==
    /\ Len(evalIn) = 1
    /\ Len(evalOut) = 0
    /\ evalOut' = <<TiemposAceptados(evalIn[1])>>
    /\ UNCHANGED <<tolerance, now, ticks, clientes, vouchers, juego, canje, envios, exitos, enviados, aprobados, authVars, evalIn>>

NextTiempos == Validar

SpecTiempos == InitTiempos /\ [][NextTiempos]_vars

(***************************************************************************)
(* Properties of the evaluator, checked under SpecEval                     *)
(***************************************************************************)

\* C9: determinarSiGano reports a win exactly when the absolute difference of
\* the two float64 times is less than or equal to the float64 tolerance,
\* boundary included, and a loss otherwise; target 7.5, achieved 7.4,
\* tolerance 0.1 is a win, and so is a difference equal to the tolerance
\* (target 7.5, achieved 8.0, tolerance 0.5).
\* The difference of the exact values (dec * 2^56 + err) / (10 * 2^56) is
\* compared by its decimal part first and its error part second.
C9_WinIffWithinTolerance ==
    Len(evalOut) = 1 =>
        LET resultado == evalIn[1]
            obtenido == Float64[resultado.TiempoObtenido]
            objetivo == Float64[resultado.TiempoObjetivo]
            tol == Float64[tolerance]
            dd == Abs(obtenido.dec - objetivo.dec)
            de == IF obtenido.dec > objetivo.dec THEN obtenido.err - objetivo.err
                  ELSE IF obtenido.dec < objetivo.dec THEN objetivo.err - obtenido.err
                  ELSE Abs(obtenido.err - objetivo.err)
            dentro == dd < tol.dec \/ (dd = tol.dec /\ de <= tol.err)
        IN  /\ evalOut[1] <=> dentro
            /\ (tolerance = 1 /\ resultado.TiempoObjetivo = 75 /\ resultado.TiempoObtenido = 74)
                  => evalOut[1]
            /\ (tolerance = 5 /\ resultado.TiempoObjetivo = 75 /\ resultado.TiempoObtenido = 80)
                  => evalOut[1]
            /\ dd > tol.dec => ~evalOut[1]

\* C9's case: the example of the claim has been evaluated and is a win
C9_Witness ==
    /\ tolerance = 1
    /\ evalIn = <<Resultado(FALSE, 75, 74)>>
    /\ evalOut = <<TRUE>>

(***************************************************************************)
(* Properties of the game workflow, checked under Spec, SpecSecuencial and *)
(* SpecNombres                                                             *)
(***************************************************************************)

\* The submissions of a phone that were accepted (returned Success=true with a
\* voucher code): every stored voucher of the phone belongs to one, except
\* the voucher of a call that has not yet returned (it is at its counter write).
Aceptadas(telefono) ==
    Cardinality({codigo \in DOMAIN vouchers : vouchers[codigo].ClienteID = telefono})
    - Cardinality({p \in Juegos : /\ juego[p].pc = "actualizarStats"
                                  /\ juego[p].cliente.Telefono = telefono})

\* Submission p is declined by the threshold gate in this step
Declina(p) ==
    /\ juego[p].pc \in {"idle", "actualizarNombre"}
    /\ juego'[p].pc = "done"
    /\ juego'[p].resp.NecesitaAprobacion

\* The three play counters of a stored customer
Contadores(cliente) ==
    <<cliente.TotalJuegos, cliente.JuegosGanados, cliente.JuegosPerdidos>>

\* C4: after k accepted submissions for one phone the stored TotalJuegos of
\* that customer is k, for any sequence and interleaving of submissions.
C4_TotalJuegosIsAccepted ==
    \A telefono \in DOMAIN clientes : clientes[telefono].TotalJuegos = Aceptadas(telefono)

\* C5: the stored TotalJuegos of a customer never decreases from one state
\* to the next.
C5_TotalJuegosNeverDecreases ==
    [][\A telefono \in DOMAIN clientes :
          clientes'[telefono].TotalJuegos >= clientes[telefono].TotalJuegos]_vars

\* C6: the step in which the threshold gate declines a submission (Success
\* false, NecesitaAprobacion true) creates no voucher, starts no notification
\* and leaves TotalJuegos, JuegosGanados and JuegosPerdidos of every stored
\* customer unchanged.
C6_DeclinedChangesNoCounters ==
    [][\A p \in Juegos :
          Declina(p) =>
             /\ ~juego'[p].resp.Success
             /\ vouchers' = vouchers
             /\ envios' = envios
             /\ \A telefono \in DOMAIN clientes :
                   Contadores(clientes'[telefono]) = Contadores(clientes[telefono])]_vars

\* C7: when the threshold gate declines a submission the stored customer
\* record is identical before and after, in every field.
C7_DeclinedChangesNoRecord ==
    [][\A p \in Juegos : Declina(p) => clientes' = clientes]_vars

\* The submissions of Spec whose phone number fails the phone validation
EntradasTelefonoInvalido ==
    {gameResult \in Entradas : ~TelefonoValido[gameResult.ClienteData.Telefono]}

\* The submissions whose times, as the decimals submitted, are out of
\* range: target outside [MinTargetTime, MaxTargetTime], achieved time
\* negative or above the ceiling
EntradasFueraDeRango ==
    {gameResult \in Entradas :
        \/ gameResult.Resultado.TiempoObjetivo < MinTargetTime
        \/ gameResult.Resultado.TiempoObjetivo > MaxTargetTime
        \/ gameResult.Resultado.TiempoObtenido < 0
        \/ gameResult.Resultado.TiempoObtenido > MaxObtenido}

\* Submission p is rejected in this step and the step changes neither store
\* and starts no notification
RechazadaSinEfecto(p) ==
    /\ juego'[p].pc = "done"
    /\ ~juego'[p].resp.Success
    /\ juego'[p].resp.Codigo = Nil
    /\ clientes' = clientes
    /\ vouchers' = vouchers
    /\ envios' = envios

\* C8: a submission whose phone number fails the phone validation returns
\* Success=false in the step that receives it; the customer store and the
\* voucher store are unchanged and no notification is started.
C8_InvalidPhoneRejected ==
    [][\A p \in Juegos :
          (juego[p].pc = "idle" /\ juego'[p].pc # "idle") =>
              \A gameResult \in EntradasTelefonoInvalido, falla \in BOOLEAN :
                  Recibir(p, gameResult, falla) => RechazadaSinEfecto(p)]_vars

\* C8's case: a submission has been rejected for its phone number while the
\* store holds a customer and a voucher
C8_Witness ==
    /\ \E p \in Juegos : /\ juego[p].pc = "done"
                          /\ juego[p].resp.Message = "Numero de telefono no valido"
    /\ DOMAIN clientes # {}
    /\ DOMAIN vouchers # {}

\* C10: a submission with out-of-range timing is rejected with Success=false
\* in the step that receives it: no customer is created or updated, no
\* voucher is created, no notification is started.
C10_OutOfRangeRejected ==
    [][\A p \in Juegos :
          (juego[p].pc = "idle" /\ juego'[p].pc # "idle") =>
              \A gameResult \in EntradasFueraDeRango, falla \in BOOLEAN :
                  Recibir(p, gameResult, falla) => RechazadaSinEfecto(p)]_vars

\* C10's case: a submission has been rejected for its times while the store
\* holds a customer who has won and lost and the vouchers of those games
C10_Witness ==
    /\ \E p \in Juegos : /\ juego[p].pc = "done"
                          /\ juego[p].resp.Message = "Datos del juego invalidos"
    /\ \E telefono \in DOMAIN clientes : /\ clientes[telefono].JuegosGanados > 0
                                          /\ clientes[telefono].JuegosPerdidos > 0
    /\ \E codigo \in DOMAIN vouchers : vouchers[codigo].Descuento = LoseDiscount

(***************************************************************************)
(* Properties of redemption, checked under SpecCanje                       *)
(***************************************************************************)

\* C1: for every voucher code and every interleaving of CanjearVoucher calls
\* on it, at most one call returns Success=true.
C1_AtMostOneSuccess == \A codigo \in DOMAIN exitos : exitos[codigo] <= 1

\* C2: a CanjearVoucher call that begins after a call on the same code has
\* returned Success=true returns Success=false in the step that reads the
\* voucher, and that step leaves the voucher table (Usado, FechaUso,
\* UsuarioCanje of every voucher) unchanged; such a call never reaches the write.
C2_RedeemedIsRejected ==
    [][\A c \in Canjes :
          /\ (canje[c].pc = "idle" /\ canje'[c].pc # "idle" /\ canje'[c].tarde)
                => /\ canje'[c].pc = "done"
                   /\ ~canje'[c].resp.Success
                   /\ vouchers' = vouchers
          /\ (canje[c].pc # "idle" /\ canje[c].tarde /\ canje'[c] # canje[c])
                => canje'[c] = CanjeIdle /\ vouchers' = vouchers]_vars

\* C2's case: a call made after a successful redemption of the code has been
\* rejected as already used, and the voucher still carries the first redemption
C2_Witness ==
    \E c \in Canjes :
        /\ canje[c].pc = "done"
        /\ canje[c].tarde
        /\ canje[c].resp.Message = "Este voucher ya fue utilizado"
        /\ vouchers[canje[c].codigo].Usado
        /\ vouchers[canje[c].codigo].UsuarioCanje # c

\* C3: an unused voucher whose FechaVencimiento is earlier than the current
\* time stays unused in every step: it is never redeemed afterwards.
C3_ExpiredNeverRedeemed ==
    [][\A codigo \in DOMAIN vouchers :
          (~vouchers[codigo].Usado /\ vouchers[codigo].FechaVencimiento < now)
             => ~vouchers'[codigo].Usado]_vars

(***************************************************************************)
(* Properties of voucher issuance, checked under SpecSecuencial            *)
(***************************************************************************)

\* Submission p inserts its voucher in this step
Emite(p) == juego[p].pc = "crearVoucher" /\ juego'[p].pc = "actualizarStats"

\* Submission p returns its Success response in this step
Acepta(p) == juego[p].pc = "actualizarStats" /\ juego'[p].pc = "done"

\* Descuento, Tipo and Ganado of a voucher are those of the outcome gano
SegunResultado(voucher, gano) ==
    /\ voucher.Ganado = gano
    /\ voucher.Descuento = (IF gano THEN WinDiscount ELSE LoseDiscount)
    /\ voucher.Tipo = (IF gano THEN "juego_ganado" ELSE "juego_perdido")

\* C11: the outcome a submission carries is determinarSiGano of its times;
\* the voucher it inserts has Descuento=WinDiscount, Tipo 'juego_ganado' and
\* Ganado=true when that outcome is a win, and Descuento=LoseDiscount, Tipo
\* 'juego_perdido' and Ganado=false otherwise; the Descuento of the Success
\* response equals the Descuento of the stored voucher of the response's code.
C11_VoucherFollowsOutcome ==
    [][\A p \in Juegos :
          /\ (juego[p].pc = "idle" /\ juego'[p].pc \notin {"idle", "done"}) =>
                \A gameResult \in EntradasSecuencial, falla \in BOOLEAN :
                    Recibir(p, gameResult, falla) =>
                        juego'[p].gano = determinarSiGano(gameResult.Resultado)
          /\ Emite(p) =>
                LET voucher == juego'[p].voucher
                IN  /\ voucher.Codigo \notin DOMAIN vouchers
                    /\ vouchers' = Save(vouchers, voucher.Codigo, voucher)
                    /\ juego'[p].gano = juego[p].gano
                    /\ SegunResultado(voucher, juego[p].gano)
          /\ Acepta(p) =>
                /\ juego'[p].resp.Success
                /\ juego'[p].resp.Codigo \in DOMAIN vouchers'
                /\ juego'[p].resp.Descuento = vouchers'[juego'[p].resp.Codigo].Descuento
                /\ SegunResultado(vouchers'[juego'[p].resp.Codigo], juego[p].gano)]_vars

\* C11's case: a won game and a lost game have each been answered with
\* Success, and their vouchers are stored with the two discounts
C11_Witness ==
    /\ juego[1].pc = "done"
    /\ juego[1].resp.Success
    /\ juego[1].resp.Descuento = LoseDiscount
    /\ \E codigo \in DOMAIN vouchers : /\ vouchers[codigo].Ganado
                                       /\ vouchers[codigo].Descuento = WinDiscount
    /\ \E codigo \in DOMAIN vouchers : /\ ~vouchers[codigo].Ganado
                                       /\ vouchers[codigo].Descuento = LoseDiscount

\* C12: every stored voucher has FechaVencimiento equal to its FechaEmision
\* plus VoucherValidityDays days.
C12_ExpiryIsEmissionPlusValidity ==
    \A codigo \in DOMAIN vouchers :
        vouchers[codigo].FechaVencimiento = vouchers[codigo].FechaEmision + VoucherValidityDays

(***************************************************************************)
(* Properties of the failure handling of a submission, checked under Spec  *)
(***************************************************************************)

\* The responses with which ProcesarResultadoJuego ends after clienteRepo.Crear
\* or voucherRepo.Crear failed
ErroresDeStore == {"Error al procesar cliente", "Error al crear voucher"}

\* C13: a submission whose customer creation or voucher insert failed is
\* answered by SubmitGameResult with HTTP 500 'Error interno del servidor',
\* not with a 200 response.
C13_StoreFailureIsInternalError ==
    \A p \in Juegos :
        (juego[p].pc = "done" /\ juego[p].resp.Message \in ErroresDeStore) =>
            /\ juego[p].err # Nil
            /\ RespuestaHTTP(juego[p].resp, juego[p].err).Status = 500

\* The notification goroutine that ActualizarStats starts for submission p
EnvioDe(p) ==
    [Telefono |-> juego[p].cliente.Telefono, Codigo |-> juego[p].voucher.Codigo,
     gano |-> juego[p].gano]

\* C14: the step in which an accepted submission returns does not wait for
\* the notification: it starts the send and returns its response while the
\* send has not run; a send that runs, whether it succeeds or fails, changes
\* neither a response nor a stored customer or voucher, and the response is
\* delivered whether or not the send has run.
C14_SendChangesNothing ==
    [][/\ \A p \in Juegos :
             Acepta(p) => /\ EnvioDe(p) \in envios'
                          /\ juego'[p].resp.Success
                          /\ juego'[p].resp.Codigo = juego[p].voucher.Codigo
                          /\ vouchers' = vouchers
       /\ \A e \in envios, ok \in BOOLEAN :
             enviarWhatsAppAsync(e, ok) =>
                 /\ juego' = juego
                 /\ clientes' = clientes
                 /\ vouchers' = vouchers
                 /\ e.Codigo \in DOMAIN vouchers'
       /\ \A p \in Juegos :
             (juego[p].pc = "done" /\ juego[p].resp.Success) => ENABLED Responder(p)]_vars

\* C14's case: two submissions were accepted; the send of one has run, the
\* send of the other has not, and both vouchers are stored
C14_Witness ==
    \E p \in Juegos :
        /\ juego[p].pc = "done"
        /\ juego[p].resp.Success
        /\ \E e \in envios : e.Codigo = juego[p].resp.Codigo
        /\ \A q \in Juegos : juego[q].pc # "actualizarStats"
        /\ \E codigo \in DOMAIN vouchers : \A e \in envios : e.Codigo # codigo

(***************************************************************************)
(* Independence of the client's flag, checked under SpecBandera            *)
(***************************************************************************)

\* A submission with its 'gano' flag inverted and everything else the same
Invertida(gameResult) == [gameResult EXCEPT !.Resultado.Gano = ~@]

\* The outcome of the submitted times, as decimals: the two pairs of
\* ResultadosBandera are 0.1 s and 0.5 s apart, which float64 decides as the
\* decimals do under the default tolerance
GanoSegunTiempos ==
    Abs(evalIn[1].TiempoObtenido - evalIn[1].TiempoObjetivo) <= DefaultTolerance

\* C15: from any store state, the step that receives a submission is also the
\* step that receives the submission with the 'gano' flag inverted, so both
\* continue from the same state; the win/lose decision, the type and discount
\* of the voucher and the counter update are those of determinarSiGano on
\* the submitted times, whatever the flag.
C15_FlagIsIgnored ==
    [][/\ \A falla \in BOOLEAN :
             Recibir(1, EntradaBandera, falla) =>
                 /\ Recibir(1, Invertida(EntradaBandera), falla)
                 /\ juego'[1].pc # "done" =>
                       juego'[1].gano = GanoSegunTiempos
       /\ Emite(1) =>
             SegunResultado(juego'[1].voucher,
                            GanoSegunTiempos)
       /\ \A falla \in BOOLEAN :
             (ActualizarStats(1, falla) /\ ~falla) =>
                 LET antes == juego[1].cliente
                     ahora == clientes'[antes.Telefono]
                     gano == GanoSegunTiempos
                 IN  /\ ahora.TotalJuegos = antes.TotalJuegos + 1
                     /\ ahora.JuegosGanados = antes.JuegosGanados + (IF gano THEN 1 ELSE 0)
                     /\ ahora.JuegosPerdidos = antes.JuegosPerdidos + (IF gano THEN 0 ELSE 1)]_vars

\* C15's case: a submission that claimed a win with losing times has been
\* answered with the consolation discount and counted as a lost game
C15_Witness ==
    /\ evalIn = <<Resultado(TRUE, Pierde.TiempoObjetivo, Pierde.TiempoObtenido)>>
    /\ juego[1].pc = "done"
    /\ juego[1].resp.Success
    /\ juego[1].resp.Descuento = LoseDiscount
    /\ \E telefono \in DOMAIN clientes : /\ clientes[telefono].JuegosPerdidos > 0
                                          /\ clientes[telefono].JuegosGanados = 0

(***************************************************************************)
(* The area-code allowlist, checked under SpecTelefonos                    *)
(***************************************************************************)

\* The submitted number is Argentine (country code 54, with or without the
\* leading '+') and the digits after the country code, and after the mobile
\* prefix 9 if there is one, begin with none of the configured AreaCodes
AreaNoPermitida(telefono) ==
    LET sinMas == TrimPrefix(CleanPhone(telefono), <<"+">>)
        nacional == TrimPrefix(TrimPrefix(sinMas, CountryCode), <<"9">>)
    IN  /\ HasPrefix(sinMas, CountryCode)
        /\ ~\E areaCode \in AreaCodes : HasPrefix(nacional, areaCode)

EntradasAreaNoPermitida ==
    {gameResult \in EntradasTelefonos : AreaNoPermitida(gameResult.ClienteData.Telefono)}

\* C16: a submission whose phone is an Argentine number with an area code
\* that is not one of the configured AreaCodes, submitted with or without the
\* leading '+', is rejected by the phone step in the step that receives it.
C16_AreaCodeAllowlistEnforced ==
    [][\A p \in Juegos :
          (juego[p].pc = "idle" /\ juego'[p].pc # "idle") =>
              \A gameResult \in EntradasAreaNoPermitida, falla \in BOOLEAN :
                  Recibir(p, gameResult, falla) => RechazadaSinEfecto(p)]_vars

(***************************************************************************)
(* The limits of the timing data, checked under SpecTiempos                *)
(***************************************************************************)

\* C17: timing data is accepted by the binding and validarDatosJuego together
\* exactly when the target time lies in [MinTargetTime, MaxTargetTime], bounds
\* included, and the achieved time is non-negative and below the ceiling of
\* 30 s: an achieved time of 0 is accepted, one of 30 is rejected.
C17_TimingAcceptedIffInRange ==
    Len(evalOut) = 1 =>
        LET objetivo == evalIn[1].TiempoObjetivo
            obtenido == evalIn[1].TiempoObtenido
        IN  evalOut[1] <=> /\ MinTargetTime <= objetivo
                           /\ objetivo <= MaxTargetTime
                           /\ 0 <= obtenido
                           /\ obtenido < MaxObtenido

(***************************************************************************)
(* Properties of the notification, checked under Spec                      *)
(***************************************************************************)

\* C18: a notification send is attempted at most once per voucher, and only
\* for a voucher that is stored; a send is started only by the step in which
\* a submission returns Success, for the voucher that submission stored, so
\* none is started for a rejected submission or a failed voucher insert; a
\* send that has run, failed or not, is never started again.
C18_AtMostOneSendPerVoucher ==
    [][/\ \A codigo \in DOMAIN enviados' :
             enviados'[codigo] <= 1 /\ codigo \in DOMAIN vouchers'
       /\ \A e \in envios' : e.Codigo \in DOMAIN vouchers' /\ e.Codigo \notin DOMAIN enviados'
       /\ \A e \in envios' \ envios :
             \E p \in Juegos : Acepta(p) /\ e = EnvioDe(p) /\ juego'[p].resp.Success
       /\ \A p \in Juegos :
             (juego'[p].pc = "done" /\ juego[p].pc # "done" /\ ~juego'[p].resp.Success) =>
                 envios' = envios /\ enviados' = enviados]_vars

\* C18's case: a send has been attempted for one voucher and is not pending
\* again, another submission has been rejected after its voucher insert failed
C18_Witness ==
    /\ \E codigo \in DOMAIN enviados :
          enviados[codigo] = 1 /\ \A e \in envios : e.Codigo # codigo
    /\ \E p \in Juegos : /\ juego[p].pc = "done"
                          /\ juego[p].resp.Message = "Error al crear voucher"

(***************************************************************************)
(* Voucher code collisions, checked under SpecColision                     *)
(***************************************************************************)

\* C19: every stored voucher is stored under its own Codigo, and a voucher
\* insert that succeeds adds one voucher with a code no stored voucher had and
\* leaves the others as they were, so no two stored vouchers share a code;
\* when generarCodigoVoucher produces a code that is already stored, the step
\* of the insert ends the call with Success=false, with no second attempt,
\* stores no voucher, leaves every customer (and so its counters) unchanged
\* and starts no notification.
C19_CollisionRejected ==
    [][/\ \A codigo \in DOMAIN vouchers' : vouchers'[codigo].Codigo = codigo
       /\ \A p \in Juegos :
             Emite(p) =>
                 /\ juego'[p].voucher.Codigo \notin DOMAIN vouchers
                 /\ DOMAIN vouchers' = DOMAIN vouchers \cup {juego'[p].voucher.Codigo}
                 /\ \A codigo \in DOMAIN vouchers : vouchers'[codigo] = vouchers[codigo]
       /\ \A p \in Juegos, random \in 0..(RandRange - 1) :
             (/\ juego[p].pc = "crearVoucher"
              /\ generarCodigoVoucher(random) \in DOMAIN vouchers
              /\ CrearVoucher(p, random, 0, FALSE)) =>
                 /\ juego'[p].pc = "done"
                 /\ ~juego'[p].resp.Success
                 /\ juego'[p].resp.Message = "Error al crear voucher"
                 /\ vouchers' = vouchers
                 /\ clientes' = clientes
                 /\ envios' = envios
                 /\ enviados' = enviados]_vars

\* C19's case: while the store is available a submission has ended with the
\* voucher error, which only a collision causes; the vouchers stored are
\* those of the accepted submissions
C19_Witness ==
    /\ \E p \in Juegos : /\ juego[p].pc = "done"
                          /\ juego[p].resp.Message = "Error al crear voucher"
    /\ \E telefono \in DOMAIN clientes :
          /\ clientes[telefono].TotalJuegos = 2
          /\ Cardinality(DOMAIN vouchers) = 2
    /\ envios = {}

(***************************************************************************)
(* Failed redemptions, checked under SpecCanje                             *)
(***************************************************************************)

\* Redemption call c returns Success=false in this step
FallaCanje(c) ==
    /\ canje[c].pc # "done"
    /\ canje'[c].pc = "done"
    /\ ~canje'[c].resp.Success

\* C20: no step of a CanjearVoucher call that returns Success=false changes
\* a stored voucher: the step that reads the voucher writes nothing, and the
\* step in which the call returns Success=false (unknown code, already used,
\* expired, or failed store update) leaves every voucher as it was, so a
\* voucher that was unused before a failed store update is unused after it.
C20_FailedRedeemChangesNothing ==
    [][\A c \in Canjes :
          /\ (canje[c].pc = "idle" /\ canje'[c].pc # "idle") => vouchers' = vouchers
          /\ FallaCanje(c) =>
                /\ vouchers' = vouchers
                /\ exitos' = exitos
                /\ (canje[c].pc = "actualizar" /\ canje[c].codigo \in DOMAIN vouchers) =>
                      vouchers'[canje[c].codigo].Usado = vouchers[canje[c].codigo].Usado]_vars

\* C20's case: a call has failed at the store update and the voucher is
\* still unused, not expired, and another call has read it and is about to
\* redeem it
C20_Witness ==
    \E c, d \in Canjes :
        /\ canje[c].pc = "done"
        /\ canje[c].resp.Message = "Error interno procesando canje"
        /\ ~vouchers[canje[c].codigo].Usado
        /\ ~Vencido(vouchers[canje[c].codigo])
        /\ canje[d].pc = "actualizar"
        /\ canje[d].codigo = canje[c].codigo

(***************************************************************************)
(* Properties of crearOBuscarCliente, checked under SpecNombres            *)
(***************************************************************************)

\* C21: crearOBuscarCliente creates a customer that did not exist with the
\* three counters at 0 and Estado 'activo' and reports it as new; when the
\* customer exists under another name or surname, its write stores the
\* submitted name and surname and leaves the stored counters as they were;
\* when the names are equal the receiving step writes nothing.
C21_CrearOBuscarCliente ==
    [][\A p \in Juegos :
          /\ (juego[p].pc = "crearCliente" /\ juego'[p] # juego[p] /\ clientes' # clientes) =>
                LET telefono == juego[p].datos.Telefono
                IN  /\ telefono \notin DOMAIN clientes
                    /\ Contadores(clientes'[telefono]) = <<0, 0, 0>>
                    /\ clientes'[telefono].Estado = "activo"
                    /\ juego'[p].pc = "crearVoucher"
                    /\ juego'[p].esNuevo
          /\ ActualizarNombre(p, FALSE) =>
                LET telefono == juego[p].cliente.Telefono
                IN  /\ clientes'[telefono].Nombre = juego[p].cliente.Nombre
                    /\ clientes'[telefono].Apellido = juego[p].cliente.Apellido
                    /\ Contadores(clientes'[telefono]) = Contadores(clientes[telefono])
          /\ (juego[p].pc = "idle" /\ juego'[p].pc # "idle") => clientes' = clientes]_vars

(***************************************************************************)
(* Staff approval, checked under SpecAprobacion                            *)
(***************************************************************************)

\* C22: after a staff approval has succeeded for a customer, a valid
\* submission of that customer is not declined by the threshold gate.
C22_ApprovalLiftsGate ==
    [][\A p \in Juegos :
          (juego[p].pc = "idle" /\ juego'[p].pc = "done") =>
              \A falla \in BOOLEAN :
                  (/\ Recibir(p, GameResult(Ana, TelefonoA, Gana), falla)
                   /\ TelefonoNormalizado[TelefonoA] \in aprobados) =>
                      ~juego'[p].resp.NecesitaAprobacion]_vars

(***************************************************************************)
(* Properties of stored vouchers, checked under SpecCanje                  *)
(***************************************************************************)

\* C23: every voucher with Usado=true has a FechaUso that is not later than
\* its FechaVencimiento.
C23_UsedBeforeExpiry ==
    \A codigo \in DOMAIN vouchers :
        vouchers[codigo].Usado =>
            vouchers[codigo].FechaUso <= vouchers[codigo].FechaVencimiento

(***************************************************************************)
(* The counter write, checked under SpecSecuencial and Spec                *)
(***************************************************************************)

\* C24: when the counter write that follows a successful voucher insert
\* fails, the submission is still accepted: its step returns Success=true
\* with the code of the voucher, the voucher stays stored, the notification
\* is started and the stored customer, TotalJuegos included, is unchanged.
C24_CounterFailureStillAccepted ==
    [][\A p \in Juegos :
          ActualizarStats(p, TRUE) =>
              /\ juego'[p].pc = "done"
              /\ juego'[p].resp.Success
              /\ juego'[p].resp.Codigo = juego[p].voucher.Codigo
              /\ juego[p].voucher.Codigo \in DOMAIN vouchers'
              /\ vouchers' = vouchers
              /\ EnvioDe(p) \in envios'
              /\ clientes' = clientes]_vars

\* C24's case: with one submission at a time, a submission has returned
\* Success while the stored TotalJuegos of its customer is still 0, and
\* its voucher is stored and its notification started
C24_Witness ==
    /\ juego[1].pc = "done"
    /\ juego[1].resp.Success
    /\ juego[1].resp.Codigo \in DOMAIN vouchers
    /\ \E e \in envios : e.Codigo = juego[1].resp.Codigo
    /\ \A telefono \in DOMAIN clientes : clientes[telefono].TotalJuegos = 0

(***************************************************************************)
(* Properties of the counters, checked under SpecContadores                *)
(***************************************************************************)

\* The game vouchers ever created for a customer (vouchers are never deleted)
VouchersDe(telefono) ==
    {codigo \in DOMAIN vouchers :
        /\ vouchers[codigo].ClienteID = telefono
        /\ vouchers[codigo].Tipo \in {"juego_ganado", "juego_perdido"}}

\* C25: for every stored customer, TotalJuegos equals JuegosGanados plus
\* JuegosPerdidos, in every reachable state.
C25_TotalIsWonPlusLost ==
    \A telefono \in DOMAIN clientes :
        clientes[telefono].TotalJuegos =
            clientes[telefono].JuegosGanados + clientes[telefono].JuegosPerdidos

\* C25's case: a customer has won and lost, and overlapping or failed counter
\* writes have left the counters behind the vouchers created
C25_Witness ==
    \E telefono \in DOMAIN clientes :
        /\ clientes[telefono].JuegosGanados > 0
        /\ clientes[telefono].JuegosPerdidos > 0
        /\ clientes[telefono].TotalJuegos < Cardinality(VouchersDe(telefono))
        /\ \A p \in Juegos : juego[p].pc = "idle"

\* C26: for every stored customer, TotalJuegos is less than or equal to the
\* number of game vouchers ever created for that customer, in every
\* reachable state.
C26_CounterNeverAhead ==
    \A telefono \in DOMAIN clientes :
        clientes[telefono].TotalJuegos <= Cardinality(VouchersDe(telefono))

\* C26's case: three vouchers were created for a customer whose stored
\* TotalJuegos is 1, and no submission is in flight
C26_Witness ==
    \E telefono \in DOMAIN clientes :
        /\ clientes[telefono].TotalJuegos = 1
        /\ Cardinality(VouchersDe(telefono)) = 3
        /\ \A p \in Juegos : juego[p].pc = "idle"

(***************************************************************************)
(* The threshold, checked under SpecUmbral                                 *)
(***************************************************************************)

\* C27: no staff approval having been given, no customer ever holds more
\* game vouchers than GamesRequireApproval.
C27_VouchersWithinThreshold ==
    aprobados = {} =>
        \A telefono \in DOMAIN clientes :
            Cardinality(VouchersDe(telefono)) <= GamesRequireApproval

\* A pointer field of a stored row that is not nil
Asignado(campo) == ToString(campo) # ToString(Nil)

\* Usado, FechaUso and UsuarioCanje of one voucher agree
Coherente(voucher) ==
    /\ voucher.Usado <=> Asignado(voucher.FechaUso)
    /\ voucher.Usado <=> Asignado(voucher.UsuarioCanje)

\* C28: after every step, every stored voucher has Usado true exactly when
\* FechaUso is set and exactly when UsuarioCanje is set; a voucher that
\* enters the store has all three unset, a write that changes one of the
\* three sets all three, and a voucher with Usado true keeps it true.
C28_UsedFieldsAgree ==
    [][ /\ \A codigo \in DOMAIN vouchers' : Coherente(vouchers'[codigo])
        /\ \A codigo \in DOMAIN vouchers' \ DOMAIN vouchers :
              /\ ~vouchers'[codigo].Usado
              /\ ~Asignado(vouchers'[codigo].FechaUso)
              /\ ~Asignado(vouchers'[codigo].UsuarioCanje)
        /\ \A codigo \in DOMAIN vouchers :
              /\ codigo \in DOMAIN vouchers'
              /\ vouchers[codigo].Usado => vouchers'[codigo].Usado
              /\ vouchers'[codigo] # vouchers[codigo] =>
                    /\ vouchers'[codigo].Usado
                    /\ Asignado(vouchers'[codigo].FechaUso)
                    /\ Asignado(vouchers'[codigo].UsuarioCanje) ]_vars

\* A voucher redeemed twice by overlapping calls, with the three fields set
C28_Witness ==
    \E codigo \in DOMAIN vouchers :
        /\ codigo \in DOMAIN exitos
        /\ exitos[codigo] = 2
        /\ vouchers[codigo].Usado
        /\ Asignado(vouchers[codigo].FechaUso)
        /\ Asignado(vouchers[codigo].UsuarioCanje)

\* C29: a submission whose lookup missed and whose create meets a customer
\* already stored under its normalized phone stores nothing, issues no
\* voucher and returns Success=false; a create adds one row, stored under
\* its own phone; and no two submissions in flight are both the creator of
\* the customer of one phone.
C29_OneCustomerPerPhone ==
    [][ /\ \A p \in Juegos :
              (juego[p].pc = "crearCliente" /\ juego'[p] # juego[p]) =>
                 IF juego[p].datos.Telefono \in DOMAIN clientes
                 THEN /\ clientes' = clientes
                      /\ vouchers' = vouchers
                      /\ juego'[p].pc = "done"
                      /\ ~juego'[p].resp.Success
                      /\ juego'[p].resp.Message = "Error al procesar cliente"
                      /\ juego'[p].resp.Codigo = Nil
                 ELSE \/ /\ DOMAIN clientes' = DOMAIN clientes \cup {juego[p].datos.Telefono}
                         /\ juego'[p].pc # "done" => juego'[p].esNuevo
                      \/ /\ clientes' = clientes
                         /\ juego'[p].pc = "done"
                         /\ ~juego'[p].resp.Success
        /\ Cardinality(DOMAIN clientes' \ DOMAIN clientes) <= 1
        /\ \A t \in DOMAIN clientes' : clientes'[t].Telefono = t
        /\ \A p, q \in Juegos :
              (/\ juego'[p].esNuevo
               /\ juego'[q].esNuevo
               /\ juego'[p].cliente.Telefono = juego'[q].cliente.Telefono) => p = q ]_vars

\* Two first submissions of one phone overlapped: one created the customer,
\* the other was turned away at its create, and one row is stored
C29_Witness ==
    \E p, q \in Juegos :
        /\ juego[p].pc = "done"
        /\ juego[p].resp.Message = "Error al procesar cliente"
        /\ juego[q].esNuevo
        /\ juego[q].cliente.Telefono = TelefonoA
        /\ DOMAIN clientes = {TelefonoA}
        /\ DOMAIN vouchers = {}

\* C30: a request through RequireAuth that carries a validly signed,
\* unexpired token of a user whose last ActivarDesactivarUsuario had
\* activar=false is answered 401, and RefreshToken of that token fails.
C30_DeactivatedIsRejected ==
    [][ \A token \in tokens :
           (ValidateToken(token) /\ token.UserID \in bajas) =>
              /\ \A falla \in BOOLEAN :
                    RequireAuth(TRUE, token, falla) => acceso'.Status = 401
              /\ \A falla \in BOOLEAN :
                    RefreshToken(token, falla) => (acceso'.Err # Nil /\ tokens' = tokens) ]_vars

====
